---- MODULE Spec2Model ----
(***************************************************************************)
(* Model of the parameter optimisation engine of calibcam:                 *)
(*   optimization.py         flat parameter vector, free-parameter mask    *)
(*   optfunctions_jacfwd.py  residual and Jacobian wrappers                *)
(*   camcalibrator.py        the staged optimisation driver                *)
(* Arrays are functions over 0..(len-1), so every index expression is the  *)
(* one of the numpy source.                                                *)
(***************************************************************************)
EXTENDS Integers, Sequences, FiniteSets, TLC

VARIABLES
    calibs,       \* input calibrations, one record per camera
    frame_masks,  \* frame_masks[cam][frame]: camera detected the board in frame
    opts,         \* [free_vars, coord_cam]
    k_to_zero,    \* argument of make_initialization
    args,         \* the dict handed to the solver callbacks (vars_full, mask_opt, precalc)
    vars_free,    \* vars_full[mask_free] as returned by make_initialization
    last,         \* record of the last call: its inputs and what it returned
    pc,           \* position of the engine: "input", "ready", "exited"
    detected,     \* the corner array as the detector produced it
    stage,        \* driver: position in perform_multi_calibration
    drv,          \* driver: opts, corners, calibs_multi, calibs_fit, the board poses
    history       \* driver: the solves executed so far, in order

vars == <<calibs, frame_masks, opts, k_to_zero, args, vars_free, last, pc, detected,
          stage, drv, history>>

engine_vars == <<calibs, frame_masks, opts, k_to_zero, args, vars_free, last, pc, detected>>
driver_vars == <<stage, drv, history>>

----------------------------------------------------------------------------
(* Bounds of the model *)

MaxCams == 2
MaxPoses == 2
MaxCorners == 1

(* Program constants *)

NCamParams == 20
FrameWindow == 10

----------------------------------------------------------------------------
(* numpy helpers *)

Size(a) == Cardinality(DOMAIN a)

Min(a, b) == IF a < b THEN a ELSE b

\* v[a:b] of a one-dimensional array, clipped to its length as python slices are
Slice(v, a, b) ==
    LET lo == Min(a, Size(v))
        hi == Min(b, Size(v))
    IN  [i \in 0..(hi - lo - 1) |-> v[lo + i]]

\* np.concatenate of two one-dimensional arrays
Concat(a, b) ==
    [i \in 0..(Size(a) + Size(b) - 1) |-> IF i < Size(a) THEN a[i] ELSE b[i - Size(a)]]

\* number of True entries of mask before position i
Rank(mask, i) == Cardinality({j \in DOMAIN mask : j < i /\ mask[j]})

\* np.where(mask)[0] restricted to the positions lo..hi-1, as a sequence (the range is
\* halved, which keeps the evaluation shallow)
RECURSIVE TruePositions(_, _, _)
TruePositions(mask, lo, hi) ==
    IF hi <= lo THEN << >>
    ELSE IF hi = lo + 1 THEN (IF mask[lo] THEN <<lo>> ELSE << >>)
    ELSE TruePositions(mask, lo, (lo + hi) \div 2) \o TruePositions(mask, (lo + hi) \div 2, hi)

\* v[mask] : the entries of v at the True positions of mask, in order
Select(v, mask) ==
    LET tp == TruePositions(mask, 0, Size(mask))
    IN  [r \in 0..(Len(tp) - 1) |-> v[tp[r + 1]]]

Zeros(n) == [i \in 0..(n - 1) |-> 0]

\* an array as numpy holds it: its entries computed once, when it is built, and not
\* again at every read
Stored(a) == IF a = a THEN a ELSE a

AllZero(v) == \A i \in DOMAIN v : v[i] = 0

----------------------------------------------------------------------------
(* optimization.py: the flat parameter vector *)

\* n_cam_param_list = np.array([3, 3, 9, 5])  (r, t, A, k)
n_cam_param_list == [p \in 0..3 |-> CASE p = 0 -> 3 [] p = 1 -> 3 [] p = 2 -> 9 [] p = 3 -> 5]

\* n_cam_param_list[0:p_idx].sum()
ParamOffset(p_idx) ==
    CASE p_idx = 0 -> 0
      [] p_idx = 1 -> n_cam_param_list[0]
      [] p_idx = 2 -> n_cam_param_list[0] + n_cam_param_list[1]
      [] p_idx = 3 -> n_cam_param_list[0] + n_cam_param_list[1] + n_cam_param_list[2]

\* pose_idxs = np.where(np.any(frame_masks, axis=0))[0], as the set of frame indexes
PoseIdxSet(fmasks) ==
    IF Size(fmasks) = 0 THEN {}
    ELSE {f \in DOMAIN fmasks[0] : \E c \in DOMAIN fmasks : fmasks[c][f]}

\* the i-th smallest element of a set of naturals (np.where returns sorted indexes)
NthOf(S, i) == CHOOSE x \in S : Cardinality({y \in S : y < x}) = i

PoseIdxs(fmasks) ==
    LET S == PoseIdxSet(fmasks)
    IN  [i \in 0..(Cardinality(S) - 1) |-> NthOf(S, i)]

\* row of calib['rvecs'] selected by  frame_idxs_cam == pose_idx
FrameRow(frame_mask_cam, pose_idx) ==
    Cardinality({f \in DOMAIN frame_mask_cam : frame_mask_cam[f] /\ f < pose_idx})

\* the inner loop of make_common_pose_params for one pose, cameras cam..n-1:
\* cur = <<rvec, tvec>> of the pose so far
RECURSIVE PoseFromCams(_, _, _, _, _)
PoseFromCams(cs, fmasks, pose_idx, cam, cur) ==
    IF cam >= Size(cs) THEN cur
    ELSE IF AllZero(cur[1]) /\ fmasks[cam][pose_idx]
         THEN PoseFromCams(cs, fmasks, pose_idx, cam + 1,
                  <<cs[cam].rvecs[FrameRow(fmasks[cam], pose_idx)],
                    cs[cam].tvecs[FrameRow(fmasks[cam], pose_idx)]>>)
         ELSE PoseFromCams(cs, fmasks, pose_idx, cam + 1, cur)

\* pose_params of shape (2, n_poses, 3): pose_params[rt][i_pose][c]
make_common_pose_params(cs, fmasks) ==
    LET pose_idxs == PoseIdxs(fmasks)
        pose(i) == PoseFromCams(cs, fmasks, pose_idxs[i], 0, <<Zeros(3), Zeros(3)>>)
    IN  [rt \in 0..1 |-> [i_pose \in DOMAIN pose_idxs |-> pose(i_pose)[rt + 1]]]

\* pose_params.ravel() for shape (2, n_poses, 3)
RavelPoseParams(pose_params) ==
    LET P == Size(pose_params[0])
    IN  [i \in 0..(2 * P * 3 - 1) |-> pose_params[i \div (3 * P)][(i % (3 * P)) \div 3][i % 3]]

\* the loop body with param[15:20] = calib['k'] in both branches
CameraParamRowKeepK(calib, free_vars, kz) ==
    [j \in 0..(NCamParams - 1) |->
        IF j < 3 THEN calib.rvec_cam[j]
        ELSE IF j < 6 THEN calib.tvec_cam[j - 3]
        ELSE IF j < 15 THEN calib.A[j - 6]
        ELSE calib.k[j - 15]]

\* one row of camera_params, filled by the loop body of make_initialization
CameraParamRow(calib, free_vars, kz) ==
    [j \in 0..(NCamParams - 1) |->
        IF j < 3 THEN calib.rvec_cam[j]
        ELSE IF j < 6 THEN calib.tvec_cam[j - 3]
        ELSE IF j < 15 THEN calib.A[j - 6]
        ELSE IF kz THEN (IF free_vars.k[j - 15] THEN calib.k[j - 15] ELSE 0)
        ELSE calib.k[j - 15]]

\* camera_params.ravel(): camera after camera
RavelByCamera(camera_params) ==
    LET n == Size(camera_params)
    IN  [i \in 0..(n * NCamParams - 1) |-> camera_params[i \div NCamParams][i % NCamParams]]

\* camera_params.T.ravel(): one scalar parameter for all cameras grouped
RavelCameraParams(camera_params) ==
    LET n == Size(camera_params)
    IN  [i \in 0..(n * NCamParams - 1) |-> camera_params[i % n][i \div n]]

\* the successive slice assignments on camera_mask, then camera_mask.ravel()
CameraMask(n, free_vars, coord_cam_idx) ==
    LET m0 == [cam \in 0..(n - 1) |-> [j \in 0..(NCamParams - 1) |-> TRUE]]
        m1 == [cam \in 0..(n - 1) |-> [j \in 0..(NCamParams - 1) |->
                  IF j \in 0..2 THEN free_vars.cam_pose ELSE m0[cam][j]]]
        m2 == [cam \in 0..(n - 1) |-> [j \in 0..(NCamParams - 1) |->
                  IF j \in 3..5 THEN free_vars.cam_pose ELSE m1[cam][j]]]
        m3 == [cam \in 0..(n - 1) |-> [j \in 0..(NCamParams - 1) |->
                  IF j \in 6..14 THEN free_vars.A[j - 6] ELSE m2[cam][j]]]
        m4 == [cam \in 0..(n - 1) |-> [j \in 0..(NCamParams - 1) |->
                  IF j \in 10..14 THEN free_vars.k[j - 10] ELSE m3[cam][j]]]
        m5 == [cam \in 0..(n - 1) |-> [j \in 0..(NCamParams - 1) |->
                  IF cam = coord_cam_idx /\ j \in 0..5 THEN FALSE ELSE m4[cam][j]]]
    IN  [i \in 0..(n * NCamParams - 1) |-> m5[i \div NCamParams][i % NCamParams]]

make_free_parameter_mask(cs, fmasks, opts_free_vars, coord_cam_idx) ==
    LET n_poses == Cardinality(PoseIdxSet(fmasks))
        pose_mask == [i \in 0..(n_poses * 2 * 3 - 1) |-> opts_free_vars.board_poses]
    IN  Concat(CameraMask(Size(cs), opts_free_vars, coord_cam_idx), pose_mask)

\* returns [vars_free, vars_full, mask_free]
make_initialization(cs, fmasks, o, kz) ==
    LET camera_params == [cam \in DOMAIN cs |-> CameraParamRow(cs[cam], o.free_vars, kz)]
        pose_params == make_common_pose_params(cs, fmasks)
        full == Stored(Concat(RavelCameraParams(camera_params), RavelPoseParams(pose_params)))
        mask == Stored(make_free_parameter_mask(cs, fmasks, o.free_vars, o.coord_cam))
    IN  [vars_free |-> Select(full, mask), vars_full |-> full, mask_free |-> mask]

\* vars_full[mask_opt] = vars_opt, written with the mask taken as it is
AssignAll(vars_opt, a) ==
    [i \in DOMAIN a.vars_full |-> IF i < Size(vars_opt) THEN vars_opt[i] ELSE a.vars_full[i]]

\* vars_full[mask_opt] += vars_opt: the proposal added to what the last call left
AccumulateFree(vars_opt, a) ==
    LET rank == Stored([i \in DOMAIN a.mask_opt |-> Rank(a.mask_opt, i)])
    IN  Stored([i \in DOMAIN a.vars_full |->
                   IF a.mask_opt[i] THEN a.vars_full[i] + vars_opt[rank[i]]
                   ELSE a.vars_full[i]])

\* the new content of args['vars_full'] (which is updated in place)
make_vars_full(vars_opt, a) ==
    LET rank == Stored([i \in DOMAIN a.mask_opt |-> Rank(a.mask_opt, i)])
    IN  Stored([i \in DOMAIN a.vars_full |->
                   IF a.mask_opt[i] THEN vars_opt[rank[i]] ELSE a.vars_full[i]])

\* arr.reshape(k, -1) raises ValueError unless the size is a multiple of k
ReshapeOk(s, k) == Size(s) % k = 0

\* arr.reshape(k, -1).T of a one-dimensional array
ReshapeT(s, k) ==
    LET m == Size(s) \div k
    IN  [cam \in 0..(m - 1) |-> [c \in 0..(k - 1) |-> s[c * m + cam]]]

\* arr.reshape(-1, 3)
ReshapeRows3(s) ==
    [r \in 0..((Size(s) \div 3) - 1) |-> [c \in 0..2 |-> s[r * 3 + c]]]

\* the six arrays, or the exception a reshape raises; cam_matrices[i] is kept raveled:
\* reshape(3, 3, -1).transpose((2, 0, 1))
unravel_vars_full(vars_full, n_cams) ==
    LET grp(p_idx) == Slice(vars_full, ParamOffset(p_idx) * n_cams,
                            ParamOffset(p_idx) * n_cams + n_cam_param_list[p_idx] * n_cams)
        board_pose_vars == Slice(vars_full, n_cams * NCamParams, Size(vars_full))
        half == Size(board_pose_vars) \div 2
        rb == Slice(board_pose_vars, 0, half)
        tb == Slice(board_pose_vars, half, Size(board_pose_vars))
    IN  IF /\ \A p_idx \in 0..3 : ReshapeOk(grp(p_idx), n_cam_param_list[p_idx])
           /\ ReshapeOk(rb, 3)
           /\ ReshapeOk(tb, 3)
        THEN [raised |-> "none",
              rvecs_cams |-> ReshapeT(grp(0), n_cam_param_list[0]),
              tvecs_cams |-> ReshapeT(grp(1), n_cam_param_list[1]),
              cam_matrices |-> ReshapeT(grp(2), n_cam_param_list[2]),
              ks |-> ReshapeT(grp(3), n_cam_param_list[3]),
              rvecs_boards |-> ReshapeRows3(rb),
              tvecs_boards |-> ReshapeRows3(tb)]
        ELSE [raised |-> "ValueError"]

\* calibs, rvecs_boards, tvecs_boards (vars_full already holds vars_opt)
unravel_to_calibs(vars_full, n_cams) ==
    LET u == Stored(unravel_vars_full(vars_full, n_cams))
    IN  [calibs |-> [i_cam \in 0..(n_cams - 1) |->
                        [rvec_cam |-> u.rvecs_cams[i_cam], tvec_cam |-> u.tvecs_cams[i_cam],
                         A |-> u.cam_matrices[i_cam], k |-> u.ks[i_cam]]],
         rvecs_boards |-> u.rvecs_boards, tvecs_boards |-> u.tvecs_boards]

----------------------------------------------------------------------------
(* optfunctions_jacfwd.py: residual and Jacobian wrappers *)

\* the not-observed sentinel of the corner array, and the nudge np.finfo(np.float16).eps
NaN == -1
Eps == 1

\* value a derivative function returned for an entry it computed
Deriv == 1

\* corners.shape = (n_cams, n_poses, n_corners, 2)
CornerShape(corners) ==
    LET C == Size(corners)
        P == IF C = 0 THEN 0 ELSE Size(corners[0])
        K == IF P = 0 THEN 0 ELSE Size(corners[0][0])
    IN  [C |-> C, P |-> P, K |-> K]

\* np.isnan(corners)
IsNan(corners) ==
    [cam \in DOMAIN corners |-> [pose \in DOMAIN corners[cam] |->
        [cn \in DOMAIN corners[cam][pose] |-> [ax \in 0..1 |-> corners[cam][pose][cn][ax] = NaN]]]]

\* corners[corners_mask] = 0
ZeroSentinels(corners) ==
    [cam \in DOMAIN corners |-> [pose \in DOMAIN corners[cam] |->
        [cn \in DOMAIN corners[cam][pose] |-> [ax \in 0..1 |->
            IF corners[cam][pose][cn][ax] = NaN THEN 0 ELSE corners[cam][pose][cn][ax]]]]]

\* the same statements without .copy(): the caller's array is the one written
CornersInPlace(corners) ==
    [local |-> ZeroSentinels(corners), caller |-> ZeroSentinels(corners)]

\* corners = args['precalc']['corners'].copy(); corners[corners_mask] = 0
\* local: the array the wrapper goes on with; caller: args['precalc']['corners'] afterwards
CornersCopy(corners) ==
    [local |-> ZeroSentinels(corners), caller |-> corners]

Sum3(v) == v[0] + v[1] + v[2]

RECURSIVE SumArr(_, _)
SumArr(v, i) == IF i >= Size(v) THEN 0 ELSE v[i] + SumArr(v, i + 1)

\* opt_ag.obj_fcn: projected sensor position minus observed position, per cell; the
\* projection of a cell reads its camera's parameters and its frame's board pose
obj_fcn(u, corners) ==
    [cam \in DOMAIN corners |-> [pose \in DOMAIN corners[cam] |->
        [cn \in DOMAIN corners[cam][pose] |-> [ax \in 0..1 |->
            (Sum3(u.rvecs_cams[cam]) + Sum3(u.tvecs_cams[cam])
             + SumArr(u.cam_matrices[cam], 0) + SumArr(u.ks[cam], 0)
             + Sum3(u.rvecs_boards[pose]) + Sum3(u.tvecs_boards[pose]) + cn + ax)
            - corners[cam][pose][cn][ax]]]]]

\* the residuals as obj_fcn returned them
ResidualsUnmasked(residuals, corners_mask) == residuals

\* residuals[corners_mask] = 0
MaskResiduals(residuals, corners_mask) ==
    [cam \in DOMAIN residuals |-> [pose \in DOMAIN residuals[cam] |->
        [cn \in DOMAIN residuals[cam][pose] |-> [ax \in 0..1 |->
            IF corners_mask[cam][pose][cn][ax] THEN 0 ELSE residuals[cam][pose][cn][ax]]]]]

\* arr.ravel() of an array of corners.shape
RavelCells(arr, sh) ==
    [r \in 0..(sh.C * sh.P * sh.K * 2 - 1) |->
        arr[r \div (sh.P * sh.K * 2)][(r \div (sh.K * 2)) % sh.P][(r \div 2) % sh.K][r % 2]]

\* rvecs_cams.copy() with every all-zero rotation set to eps
\* a wrapper that hands the rotations on as they were unravelled
NudgeNothing(rvecs_cams) == rvecs_cams

NudgeZeroRotations(rvecs_cams) ==
    [i_cam \in DOMAIN rvecs_cams |->
        IF AllZero(rvecs_cams[i_cam]) THEN [c \in 0..2 |-> Eps] ELSE rvecs_cams[i_cam]]

\* calc_cam_jacobian, first loop: array of shape corners.shape + (2, n_cams, 3),
\* reshaped to corners.shape + (-1,): column = (i_param * n_cams + cam) * 3 + c
JacCamPose(sh) ==
    [cam \in 0..(sh.C - 1) |-> [pose \in 0..(sh.P - 1) |->
        [col \in 0..(2 * sh.C * 3 - 1) |->
            IF (col \div 3) % sh.C = cam /\ pose < FrameWindow THEN Deriv ELSE 0]]]

\* second loop: shape corners.shape + (1, n_cams, 9): column = cam * 9 + e
JacCamMat(sh) ==
    [cam \in 0..(sh.C - 1) |-> [pose \in 0..(sh.P - 1) |->
        [col \in 0..(sh.C * 9 - 1) |->
            IF col \div 9 = cam /\ pose < FrameWindow THEN Deriv ELSE 0]]]

\* third loop: shape corners.shape + (1, n_cams, 5): column = cam * 5 + e
JacCamK(sh) ==
    [cam \in 0..(sh.C - 1) |-> [pose \in 0..(sh.P - 1) |->
        [col \in 0..(sh.C * 5 - 1) |->
            IF col \div 5 = cam /\ pose < FrameWindow THEN Deriv ELSE 0]]]

\* a calc_pose_jacobian that writes the derivatives into the rows of every pose
JacPoseAllRows(sh) ==
    [cam \in 0..(sh.C - 1) |-> [pose \in 0..(sh.P - 1) |->
        [col \in 0..(2 * sh.P * 3 - 1) |-> Deriv]]]

\* calc_pose_jacobian: shape corners.shape + (2, n_poses, 3):
\* column = (i_param * n_poses + pose) * 3 + c
JacPose(sh) ==
    [cam \in 0..(sh.C - 1) |-> [pose \in 0..(sh.P - 1) |->
        [col \in 0..(2 * sh.P * 3 - 1) |->
            IF (col \div 3) % sh.P = pose THEN Deriv ELSE 0]]]

\* np.concatenate of the four blocks along the last axis, one row per cell
JacConcat(sh) ==
    LET cam_pose == JacCamPose(sh)
        cam_mat == JacCamMat(sh)
        cam_k == JacCamK(sh)
        pose_blk == JacPose(sh)
        row == [cam \in 0..(sh.C - 1) |-> [pose \in 0..(sh.P - 1) |->
                   Concat(Concat(cam_pose[cam][pose], cam_mat[cam][pose]),
                          Concat(cam_k[cam][pose], pose_blk[cam][pose]))]]
    IN  [cam \in 0..(sh.C - 1) |-> [pose \in 0..(sh.P - 1) |->
            [cn \in 0..(sh.K - 1) |-> [ax \in 0..1 |-> row[cam][pose]]]]]

\* obj_fcn_jacobian[corners_mask] = 0
MaskJacRows(jac, corners_mask) ==
    [cam \in DOMAIN jac |-> [pose \in DOMAIN jac[cam] |->
        [cn \in DOMAIN jac[cam][pose] |-> [ax \in 0..1 |->
            IF corners_mask[cam][pose][cn][ax]
            THEN [col \in DOMAIN jac[cam][pose][cn][ax] |-> 0]
            ELSE jac[cam][pose][cn][ax]]]]]

\* obj_fcn_jacobian.reshape(np.prod(corners_mask.shape), -1)[:, mask_opt]
SelectColumns(jac, sh, mask_opt) ==
    LET rows == Stored(RavelCells(jac, sh))
        tp == TruePositions(mask_opt, 0, Size(mask_opt))
    IN  [r \in DOMAIN rows |-> [c \in 0..(Len(tp) - 1) |-> rows[r][tp[c + 1]]]]

----------------------------------------------------------------------------
(* Inputs of the engine *)

Delta == 1000

CamTag(cam, j) == 100 * (cam + 1) + j + 1
PoseTag(cam, rt, row, c) == 100 * (cam + 1) + 30 + 6 * row + 3 * rt + c + 1
CornerTag(cam, pose, cn, ax) == 5 + ax

AllFalse(n) == [i \in 0..(n - 1) |-> FALSE]
AllTrue(n) == [i \in 0..(n - 1) |-> TRUE]

\* free_vars of the default options: A = [[T,F,T],[F,T,T],[F,F,F]], k = [T,T,F,F,F]
DefaultA == [i \in 0..8 |-> i \in {0, 2, 4, 5}]
DefaultK == [i \in 0..4 |-> i \in {0, 1}]

FreeVarsSet ==
    {[cam_pose |-> cp, A |-> ak[1], k |-> ak[2], board_poses |-> bp] :
        cp \in BOOLEAN, bp \in BOOLEAN,
        ak \in {<<AllFalse(9), AllFalse(5)>>, <<AllTrue(9), AllTrue(5)>>, <<DefaultA, DefaultK>>}}

Gaps == {"none", "first", "last", "corner"}

\* detection masks of n cameras over F frames: every camera sees every frame, but
\* camera 0 misses frame 0 ("first") or the last camera misses the last frame ("last")
InputFrameMasks(n, F, gap) ==
    [cam \in 0..(n - 1) |-> [f \in 0..(F - 1) |->
        ~ \/ (gap = "first" /\ cam = 0 /\ f = 0)
          \/ (gap = "last" /\ cam = n - 1 /\ f = F - 1)]]

\* calibrations with every entry tagged by its camera and its place; the reference
\* camera sits at the origin when zero_ref
InputCalibs(n, fmasks, coord_cam, zero_ref) ==
    [cam \in 0..(n - 1) |->
        LET rows == Cardinality({f \in DOMAIN fmasks[cam] : fmasks[cam][f]})
        IN  [rvec_cam |-> [c \in 0..2 |-> IF zero_ref /\ cam = coord_cam THEN 0 ELSE CamTag(cam, c)],
             tvec_cam |-> [c \in 0..2 |-> IF zero_ref /\ cam = coord_cam THEN 0 ELSE CamTag(cam, 3 + c)],
             A |-> [e \in 0..8 |-> CamTag(cam, 6 + e)],
             k |-> [e \in 0..4 |-> CamTag(cam, 15 + e)],
             rvecs |-> [r \in 0..(rows - 1) |-> [c \in 0..2 |-> PoseTag(cam, 0, r, c)]],
             tvecs |-> [r \in 0..(rows - 1) |-> [c \in 0..2 |-> PoseTag(cam, 1, r, c)]]]]

\* the corner array of the detector: sentinels where the camera did not detect the
\* frame, and, for "corner", at the last corner slot (when it is not the only one) of
\* the last camera in pose 0
InputCorners(n, fmasks, gap) ==
    LET pose_idxs == PoseIdxs(fmasks)
    IN  [cam \in 0..(n - 1) |-> [pose \in DOMAIN pose_idxs |->
            [cn \in 0..(MaxCorners - 1) |-> [ax \in 0..1 |->
                IF \/ ~fmasks[cam][pose_idxs[pose]]
                   \/ (gap = "corner" /\ cam = n - 1 /\ pose = 0 /\ cn = MaxCorners - 1 /\ cn > 0)
                THEN NaN ELSE CornerTag(cam, pose, cn, ax)]]]]

NoCall == [op |-> "none"]

----------------------------------------------------------------------------
(* The engine: make_initialization, then the solver's callbacks *)

\* the free-variable configurations of the callback runs: the default options, the
\* pose-only stage, the board-pose stage, and everything free
EvalFreeVars ==
    {[cam_pose |-> TRUE, A |-> DefaultA, k |-> DefaultK, board_poses |-> TRUE],
     [cam_pose |-> TRUE, A |-> AllFalse(9), k |-> AllFalse(5), board_poses |-> TRUE],
     [cam_pose |-> FALSE, A |-> AllFalse(9), k |-> AllFalse(5), board_poses |-> TRUE],
     [cam_pose |-> TRUE, A |-> AllTrue(9), k |-> AllTrue(5), board_poses |-> FALSE]}

\* the arguments of make_initialization for recordings of F \in Fs frames
EngineInitFrames(FVs, KZs, Fs) ==
    /\ \E n \in 1..MaxCams, F \in Fs, gap \in Gaps, zero_ref \in BOOLEAN :
         \E coord_cam \in 0..(n - 1), fv \in FVs :
            /\ frame_masks = InputFrameMasks(n, F, gap)
            /\ calibs = InputCalibs(n, frame_masks, coord_cam, zero_ref)
            /\ opts = [free_vars |-> fv, coord_cam |-> coord_cam]
            /\ args = [vars_full |-> << >>, mask_opt |-> << >>,
                       precalc |-> [corners |-> InputCorners(n, frame_masks, gap),
                                    boards_coords_3d_0 |-> [cam \in 0..(n - 1) |-> 0]]]
    /\ k_to_zero \in KZs
    /\ vars_free = << >>
    /\ last = NoCall
    /\ pc = "input"
    /\ detected = args.precalc.corners

EngineInit(FVs, KZs) == EngineInitFrames(FVs, KZs, 0..MaxPoses)

\* make_optim_input: the flat vector and the mask become the callbacks' args
MakeInitialization ==
    /\ pc = "input"
    /\ LET init == make_initialization(calibs, frame_masks, opts, k_to_zero)
       IN  /\ args' = [args EXCEPT !.vars_full = init.vars_full, !.mask_opt = init.mask_free]
           /\ vars_free' = init.vars_free
           /\ last' = [op |-> "make_initialization"]
    /\ pc' = "ready"
    /\ UNCHANGED <<calibs, frame_masks, opts, k_to_zero, detected, driver_vars>>

\* the vectors the solver proposes for the free entries: the initial values, the
\* initial values moved by Delta, or one distinct value per free entry
Proposals ==
    {vars_free,
     [r \in DOMAIN vars_free |-> vars_free[r] + Delta],
     [r \in DOMAIN vars_free |-> 2 * Delta + r]}

\* obj_fcn_wrapper(vars_opt, a): what it returns and what it leaves in a
obj_fcn_wrapper(vars_opt, a) ==
    LET cc == CornersCopy(a.precalc.corners)
        corners_mask == Stored(IsNan(a.precalc.corners))
        full == make_vars_full(vars_opt, a)
        n_cams == Size(a.precalc.boards_coords_3d_0)
        u == Stored(unravel_vars_full(full, n_cams))
        residuals == MaskResiduals(obj_fcn(u, cc.local), corners_mask)
    IN  [args |-> [a EXCEPT !.vars_full = full, !.precalc.corners = cc.caller],
         corners_mask |-> corners_mask,
         ret |-> RavelCells(residuals, CornerShape(cc.local))]

\* obj_fcn_jacobian_wrapper(vars_opt, a) when no derivative block holds a nan: what it
\* returns, what it leaves in a, and point: the arrays the derivative functions are
\* evaluated at
obj_fcn_jacobian_wrapper(vars_opt, a) ==
    LET corners == a.precalc.corners
        corners_mask == Stored(IsNan(corners))
        sh == CornerShape(corners)
        full == make_vars_full(vars_opt, a)
        n_cams == Size(a.precalc.boards_coords_3d_0)
        u == Stored(unravel_vars_full(full, n_cams))
        rvecs_cams == NudgeZeroRotations(u.rvecs_cams)
        jac == Stored(MaskJacRows(JacConcat(sh), corners_mask))
    IN  [args |-> [a EXCEPT !.vars_full = full],
         corners_mask |-> corners_mask,
         rvecs_cams |-> rvecs_cams,
         point |-> [u EXCEPT !.rvecs_cams = rvecs_cams],
         ret |-> SelectColumns(jac, sh, a.mask_opt)]

\* optimization.py, calc_cam_jacobian and calc_pose_jacobian: the last-axis sizes of the
\* arrays as np.zeros declares them, (2, n, 3), (2, n, 9), (2, n, 5) and (2, p, 3)
OptDeclaredColumns(sh) == 2 * sh.C * 3 + 2 * sh.C * 9 + 2 * sh.C * 5 + 2 * sh.P * 3

\* optimization.py, obj_fcn_jacobian_wrapper(vars_opt, a): the second loop of
\* calc_cam_jacobian evaluates print(offset + i_parami), a name that is not bound, in
\* its first iteration; without cameras calc_pose_jacobian is reached, which calls the
\* integer n_pose_param_list.size
opt_obj_fcn_jacobian_wrapper(vars_opt, a) ==
    LET sh == CornerShape(a.precalc.corners)
    IN  [args |-> [a EXCEPT !.vars_full = make_vars_full(vars_opt, a)],
         raised |-> IF sh.C >= 1 THEN "NameError" ELSE "TypeError",
         declared |-> OptDeclaredColumns(sh)]

ObjFcnWrapper(vars_opt) ==
    /\ pc = "ready"
    /\ \E w \in {obj_fcn_wrapper(vars_opt, args)} :
           /\ args' = w.args
           /\ last' = [op |-> "obj_fcn_wrapper", vars_opt |-> vars_opt,
                       corners_mask |-> w.corners_mask,
                       ret |-> w.ret]
    /\ UNCHANGED <<calibs, frame_masks, opts, k_to_zero, vars_free, pc, detected, driver_vars>>

\* has_nan: one of the blocks the derivative functions returned holds a nan
ObjFcnJacobianWrapper(vars_opt, has_nan) ==
    /\ pc = "ready"
    /\ \E w \in {obj_fcn_jacobian_wrapper(vars_opt, args)} :
           /\ args' = w.args
           /\ IF has_nan
              THEN /\ pc' = "exited"
                   /\ last' = [op |-> "exit", vars_opt |-> vars_opt]
              ELSE /\ pc' = pc
                   /\ last' = [op |-> "obj_fcn_jacobian_wrapper", vars_opt |-> vars_opt,
                               corners_mask |-> w.corners_mask,
                               rvecs_cams |-> w.rvecs_cams,
                               point |-> w.point,
                               ret |-> w.ret]
    /\ UNCHANGED <<calibs, frame_masks, opts, k_to_zero, vars_free, detected, driver_vars>>

\* the assembler of optimization.py called on the same args
OptObjFcnJacobianWrapper(vars_opt) ==
    /\ pc = "ready"
    /\ \E w \in {opt_obj_fcn_jacobian_wrapper(vars_opt, args)} :
           /\ args' = w.args
           /\ last' = [op |-> "optimization.obj_fcn_jacobian_wrapper", vars_opt |-> vars_opt,
                       raised |-> w.raised, declared |-> w.declared]
    /\ UNCHANGED <<calibs, frame_masks, opts, k_to_zero, vars_free, pc, detected, driver_vars>>

\* the vector handed to unravel_vars_full: vars_full cut or extended to length len
Resize(v, len) == [i \in 0..(len - 1) |-> IF i < Size(v) THEN v[i] ELSE 9]

LenDeltas == {0 - 6, 0 - 1, 0, 3, 6}

\* unravel_vars_full(vec, n_cams) on a vector of any length
UnravelVarsFull(d) ==
    /\ pc = "ready"
    /\ Size(args.vars_full) + d >= 0
    /\ LET vec == Resize(args.vars_full, Size(args.vars_full) + d)
           n_cams == Size(args.precalc.boards_coords_3d_0)
       IN  last' = [op |-> "unravel_vars_full", vec |-> vec, n_cams |-> n_cams,
                    n_poses |-> CornerShape(args.precalc.corners).P,
                    ret |-> unravel_vars_full(vec, n_cams)]
    /\ UNCHANGED <<calibs, frame_masks, opts, k_to_zero, args, vars_free, pc, detected,
                   driver_vars>>

DriverIdle ==
    /\ stage = "idle"
    /\ drv = [op |-> "none"]
    /\ history = << >>

\* the parameter vector model: flatten, then unflatten vectors of any length
Init == EngineInit(FreeVarsSet, BOOLEAN) /\ DriverIdle

Next ==
    \/ MakeInitialization
    \/ \E d \in LenDeltas : UnravelVarsFull(d)

Spec == Init /\ [][Next]_vars

\* the solver's callbacks on the args make_initialization built
InitEval == EngineInit(EvalFreeVars, {TRUE}) /\ DriverIdle

NextEval ==
    \/ MakeInitialization
    \/ \E vars_opt \in Proposals : ObjFcnWrapper(vars_opt)
    \/ \E vars_opt \in Proposals, has_nan \in BOOLEAN : ObjFcnJacobianWrapper(vars_opt, has_nan)
    \/ \E vars_opt \in Proposals : OptObjFcnJacobianWrapper(vars_opt)

SpecEval == InitEval /\ [][NextEval]_vars

\* the callbacks on a recording that is one frame longer than the slice 0:10 of
\* calc_cam_jacobian
LongRecording == FrameWindow + 1

InitLong == EngineInitFrames(EvalFreeVars, {TRUE}, {LongRecording}) /\ DriverIdle

SpecLong == InitLong /\ [][NextEval]_vars

----------------------------------------------------------------------------
(* camcalibrator.py: the staged driver, perform_multi_calibration (opts['debug'] off) *)

EngineIdle ==
    /\ calibs = << >>
    /\ frame_masks = << >>
    /\ opts = [op |-> "none"]
    /\ k_to_zero = TRUE
    /\ args = [op |-> "none"]
    /\ vars_free = << >>
    /\ last = NoCall
    /\ pc = "idle"
    /\ detected = << >>

\* the frame masks make_optim_input derives from a corner array: the frames in which
\* the camera has a detected corner
FrameMasksOf(corners) ==
    [cam \in DOMAIN corners |-> [f \in DOMAIN corners[cam] |->
        \E cn \in DOMAIN corners[cam][f] : corners[cam][f][cn][0] # NaN]]

\* helper.combine_calib_with_board_params: every camera's calibration gets the board poses
combine_calib_with_board_params(cams, rvecs_boards, tvecs_boards) ==
    [cam \in DOMAIN cams |-> [cams[cam] EXCEPT !.rvecs = rvecs_boards, !.tvecs = tvecs_boards]]

\* camfunctions.optimize_calib_parameters: flatten, one solver run on the free entries,
\* unflatten into the calibration result. move: the solver moved the free entries
optimize_calib_parameters(corners, cams, o, move) ==
    LET init == Stored(make_initialization(cams, FrameMasksOf(corners), o, FALSE))
        a == [vars_full |-> init.vars_full, mask_opt |-> init.mask_free]
        x == IF move THEN [r \in DOMAIN init.vars_free |-> init.vars_free[r] + Delta]
             ELSE init.vars_free
        r == Stored(unravel_to_calibs(make_vars_full(x, a), Size(cams)))
    IN  [calibs_fit |-> [cam \in DOMAIN cams |->
                            [rvec_cam |-> r.calibs[cam].rvec_cam, tvec_cam |-> r.calibs[cam].tvec_cam,
                             A |-> r.calibs[cam].A, k |-> r.calibs[cam].k,
                             rvecs |-> r.rvecs_boards, tvecs |-> r.tvecs_boards]],
         rvecs_boards |-> r.rvecs_boards,
         tvecs_boards |-> r.tvecs_boards,
         mask |-> init.mask_free]

\* pose_opts of optimize_poses
PoseOpts(o) ==
    [o EXCEPT !.free_vars.A = AllFalse(9), !.free_vars.k = AllFalse(5)]

\* pose_opts of optimize_board_poses
BoardPoseOpts(o) ==
    [o EXCEPT !.free_vars.cam_pose = FALSE, !.free_vars.A = AllFalse(9),
              !.free_vars.k = AllFalse(5)]

\* good_poses: the poses no camera has a residual above opts['max_allowed_res'] for
GoodPoses(above) ==
    {q \in DOMAIN above[0] : \A i_cam \in DOMAIN above : ~above[i_cam][q]}

Abs(x) == IF x < 0 THEN 0 - x ELSE x

\* helper.nearest_element(i_pose, good_poses): a good pose at the least distance, the
\* lower one of two at the same distance when tie_low, else the higher one
HasTie(good_poses, P) ==
    \E i_pose \in 0..(P - 1), g \in good_poses, h \in good_poses :
        g < h /\ i_pose - g = h - i_pose

nearest_element(i_pose, good_poses, tie_low) ==
    LET best == {g \in good_poses : \A h \in good_poses : Abs(g - i_pose) <= Abs(h - i_pose)}
    IN  CHOOSE g \in best : \A h \in best : IF tie_low THEN g <= h ELSE g >= h

\* corners[:, [i_pose]]
CornersOfPose(corners, i_pose) ==
    [cam \in DOMAIN corners |-> [f \in 0..0 |-> corners[cam][i_pose]]]

\* lines 294-297: calibs_multi_pose with the board pose of the nearest good frame
PoseGuess(cams_pose, orig, nearest_i_pose) ==
    [cam \in DOMAIN cams_pose |->
        [cams_pose[cam] EXCEPT
            !.rvecs = [r \in 0..0 |-> orig[cam].rvecs[nearest_i_pose]],
            !.tvecs = [r \in 0..0 |-> orig[cam].tvecs[nearest_i_pose]]]]

\* lines 299-301: what the solve of frame i_pose returns is assigned; rvecs_boards and
\* tvecs_boards are names of the arrays of calibs_multi[0], which are written in place.
\* st: [orig |-> calibs_multi, pose |-> calibs_multi_pose, fit |-> calibs_fit_pose,
\* guesses |-> the initial guesses so far]
AssignPose(st, i_pose, nearest_i_pose, guess, res) ==
    [orig |-> [st.orig EXCEPT
                  ![0].rvecs = [@ EXCEPT ![i_pose] = res.rvecs_boards[0]],
                  ![0].tvecs = [@ EXCEPT ![i_pose] = res.tvecs_boards[0]]],
     pose |-> guess,
     fit |-> res.calibs_fit,
     guesses |-> Append(st.guesses,
                    [nearest |-> nearest_i_pose,
                     rvecs |-> [cam \in DOMAIN guess |-> guess[cam].rvecs[0]],
                     tvecs |-> [cam \in DOMAIN guess |-> guess[cam].tvecs[0]],
                     mask |-> res.mask])]

\* one iteration of the loop of optimize_board_poses
SolvePose(st, i_pose, nearest_i_pose, guess, corners, pose_opts, move) ==
    AssignPose(st, i_pose, nearest_i_pose, guess,
               optimize_calib_parameters(CornersOfPose(corners, i_pose), guess, pose_opts, move))

\* the loop of optimize_board_poses from frame i_pose on
RECURSIVE BoardPoseLoop(_, _, _, _, _, _, _)
BoardPoseLoop(i_pose, corners, pose_opts, good_poses, moves, tie_low, st) ==
    IF i_pose >= Size(corners[0]) THEN st
    ELSE BoardPoseLoop(i_pose + 1, corners, pose_opts, good_poses, moves, tie_low,
             Stored(SolvePose(st, i_pose, nearest_element(i_pose, good_poses, tie_low),
                              PoseGuess(st.pose, st.orig,
                                        nearest_element(i_pose, good_poses, tie_low)),
                              corners, pose_opts, moves[i_pose])))

\* residual patterns of a solve: above[cam][pose] = some residual of the cell exceeds
\* opts['max_allowed_res']; none does, or those of the first or of the last camera in
\* some frames do
FunPatterns(n, P) ==
    {[cam \in 0..(n - 1) |-> [q \in 0..(P - 1) |-> FALSE]]} \cup
    {[cam \in 0..(n - 1) |-> [q \in 0..(P - 1) |-> cam = c /\ q \in B]] :
        c \in {0, n - 1}, B \in (SUBSET (0..(P - 1))) \ {{}}}

DriverFreeVars == {fv \in FreeVarsSet : fv.cam_pose /\ fv.board_poses}

StageOrder == <<"optimize_poses", "optimize_calibration_I", "optimize_board_poses",
                "optimize_calibration_II">>

\* state after the detection, the single camera calibrations and estimate_cam_poses
DriverInit ==
    /\ stage = "optimize_poses"
    /\ history = << >>
    /\ \E n \in 1..MaxCams, P \in 1..MaxPoses, obp \in BOOLEAN :
         \E coord_cam \in 0..(n - 1), fv \in DriverFreeVars :
            LET fmasks == InputFrameMasks(n, P, "none")
            IN  drv = [opts |-> [free_vars |-> fv, coord_cam |-> coord_cam,
                                 optimize_board_poses |-> obp],
                       corners |-> InputCorners(n, fmasks, "none"),
                       calibs_multi |-> [by |-> "estimate_cam_poses",
                                         cams |-> InputCalibs(n, fmasks, coord_cam, FALSE)],
                       calibs_fit |-> [by |-> "none", cams |-> << >>],
                       rvecs_boards |-> << >>,
                       tvecs_boards |-> << >>,
                       above |-> << >>,
                       board_stage |-> [op |-> "none"]]

\* the calibration the full joint stage is called with (line 175)
SeedOfCalibrationIFromEstimate(d) == d.calibs_multi

SeedOfCalibrationI(d) == d.calibs_fit

\* where perform_multi_calibration goes on after the first full joint stage
AfterCalibrationIFinalAlways(o) ==
    IF o.optimize_board_poses THEN "optimize_board_poses" ELSE "optimize_calibration_II"

AfterCalibrationI(o) ==
    IF o.optimize_board_poses THEN "optimize_board_poses" ELSE "test_objective_function"

\* a solve of a whole-recording stage and the assignment of what it returns
Solve(name, seed, o, move, above, next) ==
    \E res \in {optimize_calib_parameters(drv.corners, seed.cams, o, move)} :
        /\ drv' = [drv EXCEPT !.calibs_fit = [by |-> name, cams |-> res.calibs_fit],
                              !.rvecs_boards = res.rvecs_boards,
                              !.tvecs_boards = res.tvecs_boards,
                              !.above = above]
        /\ history' = Append(history, [stage |-> name, seed |-> seed.by, mask |-> res.mask,
                                        passed |-> seed.cams, returned |-> res.calibs_fit])
        /\ stage' = next
        /\ UNCHANGED engine_vars

NoneAbove == [cam \in DOMAIN drv.corners |-> [q \in DOMAIN drv.corners[cam] |-> FALSE]]

OptimizePoses(move) ==
    /\ stage = "optimize_poses"
    /\ Solve("optimize_poses", drv.calibs_multi, PoseOpts(drv.opts), move, NoneAbove,
             "optimize_calibration_I")

OptimizeCalibrationI(move, above) ==
    /\ stage = "optimize_calibration_I"
    /\ Solve("optimize_calibration_I", SeedOfCalibrationI(drv), drv.opts, move, above,
             AfterCalibrationI(drv.opts))

\* optimize_board_poses(corners, calibs_fit, prev_fun=min_result.fun), then line 188
OptimizeBoardPoses(moves, tie_low) ==
    /\ stage = "optimize_board_poses"
    /\ tie_low \/ HasTie(GoodPoses(drv.above), Size(drv.corners[0]))
    /\ LET calibs_multi == drv.calibs_fit.cams
           good_poses == GoodPoses(drv.above)
       IN  IF good_poses = {}
           THEN /\ stage' = "raised"
                /\ UNCHANGED <<drv, history>>
           ELSE \E st \in {BoardPoseLoop(0, drv.corners, BoardPoseOpts(drv.opts), good_poses,
                                          moves, tie_low,
                                          [orig |-> calibs_multi, pose |-> calibs_multi,
                                           fit |-> << >>, guesses |-> << >>])} :
                LET rvecs_boards == st.orig[0].rvecs
                    tvecs_boards == st.orig[0].tvecs
                IN  /\ drv' = [drv EXCEPT
                          !.calibs_fit = [by |-> "optimize_board_poses",
                                          cams |-> combine_calib_with_board_params(
                                                       st.fit, rvecs_boards, tvecs_boards)],
                          !.rvecs_boards = rvecs_boards,
                          !.tvecs_boards = tvecs_boards,
                          !.board_stage = [op |-> "optimize_board_poses",
                                           passed |-> calibs_multi,
                                           good_poses |-> good_poses,
                                           guesses |-> st.guesses,
                                           calibs_fit_pose |-> st.fit,
                                           rvecs_boards |-> rvecs_boards,
                                           tvecs_boards |-> tvecs_boards]]
                    /\ history' = Append(history,
                                      [stage |-> "optimize_board_poses",
                                       seed |-> drv.calibs_fit.by,
                                       mask |-> st.guesses[1].mask,
                                       passed |-> calibs_multi,
                                       returned |-> combine_calib_with_board_params(
                                                        st.fit, rvecs_boards, tvecs_boards)])
                    /\ stage' = "optimize_calibration_II"
    /\ UNCHANGED engine_vars

OptimizeCalibrationII(move) ==
    /\ stage = "optimize_calibration_II"
    /\ Solve("optimize_calibration_II", drv.calibs_fit, drv.opts, move, NoneAbove,
             "test_objective_function")

\* test_objective_function, build_result, save_multicalibration
Finish ==
    /\ stage = "test_objective_function"
    /\ stage' = "finished"
    /\ UNCHANGED <<drv, history, engine_vars>>

InitDriver == EngineIdle /\ DriverInit

NextDriver ==
    \/ \E move \in BOOLEAN : OptimizePoses(move)
    \/ \E move \in BOOLEAN, above \in FunPatterns(Size(drv.corners), Size(drv.corners[0])) :
          OptimizeCalibrationI(move, above)
    \/ \E moves \in [0..(Size(drv.corners[0]) - 1) -> BOOLEAN], tie_low \in BOOLEAN :
          OptimizeBoardPoses(moves, tie_low)
    \/ \E move \in BOOLEAN : OptimizeCalibrationII(move)
    \/ Finish

SpecDriver == InitDriver /\ [][NextDriver]_vars

----------------------------------------------------------------------------
(* Claims about the parameter vector model (specification Spec) *)

\* position of camera_params[cam][j] in camera_params.T.ravel() for n cameras
FlatIndex(n, cam, j) == j * n + cam

NCams == Size(calibs)
NPoses == Cardinality(PoseIdxSet(frame_masks))

\* first camera that detected the frame of pose i, and the board pose it holds for it
FirstCam(i) == CHOOSE cam \in DOMAIN frame_masks :
                   /\ frame_masks[cam][PoseIdxs(frame_masks)[i]]
                   /\ \A c \in DOMAIN frame_masks :
                        frame_masks[c][PoseIdxs(frame_masks)[i]] => cam <= c
InputBoardRvec(i) ==
    calibs[FirstCam(i)].rvecs[FrameRow(frame_masks[FirstCam(i)], PoseIdxs(frame_masks)[i])]
InputBoardTvec(i) ==
    calibs[FirstCam(i)].tvecs[FrameRow(frame_masks[FirstCam(i)], PoseIdxs(frame_masks)[i])]

\* the last call unraveled the vector make_initialization built
UnraveledInitialVector ==
    /\ last.op = "unravel_vars_full"
    /\ last.vec = args.vars_full

RoundTripButK(u) ==
    /\ u.raised = "none"
    /\ DOMAIN u.rvecs_cams = DOMAIN calibs
    /\ \A cam \in DOMAIN calibs :
         /\ u.rvecs_cams[cam] = calibs[cam].rvec_cam
         /\ u.tvecs_cams[cam] = calibs[cam].tvec_cam
         /\ u.cam_matrices[cam] = calibs[cam].A
    /\ DOMAIN u.rvecs_boards = 0..(NPoses - 1)
    /\ DOMAIN u.tvecs_boards = 0..(NPoses - 1)
    /\ \A i \in 0..(NPoses - 1) :
         /\ u.rvecs_boards[i] = InputBoardRvec(i)
         /\ u.tvecs_boards[i] = InputBoardTvec(i)

\* C1 as stated: unravel_vars_full of the vector built by make_initialization returns
\* every camera's rotation, translation, intrinsic matrix and distortion vector and
\* every board pose of the input, for either value of k_to_zero.
C1_RoundTrip ==
    UnraveledInitialVector =>
        /\ RoundTripButK(last.ret)
        /\ \A cam \in DOMAIN calibs : last.ret.ks[cam] = calibs[cam].k

\* C1 amended: the round trip returns the input exactly, except that with k_to_zero
\* the distortion coefficients that are not free come back as 0.
C1_RoundTripZeroedK ==
    UnraveledInitialVector =>
        /\ RoundTripButK(last.ret)
        /\ \A cam \in DOMAIN calibs : \A c \in 0..4 :
             last.ret.ks[cam][c] =
                 IF k_to_zero /\ ~opts.free_vars.k[c] THEN 0 ELSE calibs[cam].k[c]

C1_Witness ==
    /\ UnraveledInitialVector
    /\ NCams >= 2
    /\ NPoses >= 2
    /\ k_to_zero
    /\ \E c \in 0..4 : ~opts.free_vars.k[c] /\ last.ret.ks[1][c] = 0
    /\ \E c \in 0..4 : opts.free_vars.k[c] /\ last.ret.ks[1][c] = calibs[1].k[c]

\* C2: the mask of make_free_parameter_mask is false at the six positions at which
\* make_initialization stores the reference camera's rotation and translation.
C2_RefCamPoseFixed ==
    pc = "ready" =>
        \A j \in 0..5 : ~args.mask_opt[FlatIndex(NCams, opts.coord_cam, j)]

\* C3: the masks for free_vars.cam_pose = true and = false differ only at positions
\* that hold a camera rotation or translation component.
C3_CamPoseToggle ==
    pc = "ready" =>
        LET on == make_free_parameter_mask(calibs, frame_masks,
                      [opts.free_vars EXCEPT !.cam_pose = TRUE], opts.coord_cam)
            off == make_free_parameter_mask(calibs, frame_masks,
                      [opts.free_vars EXCEPT !.cam_pose = FALSE], opts.coord_cam)
        IN  \A i \in DOMAIN on :
                on[i] # off[i] => \E cam \in 0..(NCams - 1), j \in 0..5 : i = FlatIndex(NCams, cam, j)

\* C7: unravel_vars_full fails with ShapeMismatch for every vector whose length is not
\* 20 * camera_count + 6 * pose_count, and returns no arrays for it.
C7_ShapeMismatch ==
    (last.op = "unravel_vars_full" /\ Size(last.vec) # NCamParams * last.n_cams + 6 * last.n_poses)
        => last.ret.raised = "ShapeMismatch"

----------------------------------------------------------------------------
(* Claims about the callbacks (specification SpecEval) *)

Evaluated == last.op \in {"obj_fcn_wrapper", "obj_fcn_jacobian_wrapper"}

\* C4: make_vars_full sets the entries where the mask is true to the proposed values,
\* in order, and leaves every entry where the mask is false at its previous value.
C4_MakeVarsFull ==
    [][last'.op \in {"obj_fcn_wrapper", "obj_fcn_jacobian_wrapper", "exit"} =>
          /\ args'.mask_opt = args.mask_opt
          /\ DOMAIN args'.vars_full = DOMAIN args.vars_full
          /\ Select(args'.vars_full, args.mask_opt) = last'.vars_opt
          /\ \A i \in DOMAIN args.vars_full :
               ~args.mask_opt[i] => args'.vars_full[i] = args.vars_full[i]]_vars

C4_Witness ==
    /\ Evaluated
    /\ \E i \in DOMAIN args.mask_opt : args.mask_opt[i]
    /\ \E i \in DOMAIN args.mask_opt : ~args.mask_opt[i]
    /\ Select(args.vars_full, args.mask_opt) # vars_free

SentinelRows == RavelCells(IsNan(detected), CornerShape(detected))

\* C5: at every cell of the observation array that holds the sentinel, the residual
\* returned is 0 and the row of the Jacobian returned is all zeros.
C5_SentinelZero ==
    /\ last.op = "obj_fcn_wrapper" =>
         \A r \in DOMAIN last.ret : SentinelRows[r] => last.ret[r] = 0
    /\ last.op = "obj_fcn_jacobian_wrapper" =>
         \A r \in DOMAIN last.ret : SentinelRows[r] =>
             \A c \in DOMAIN last.ret[r] : last.ret[r][c] = 0

C5_Witness ==
    /\ last.op = "obj_fcn_jacobian_wrapper"
    /\ \E r \in DOMAIN last.ret : SentinelRows[r] /\ DOMAIN last.ret[r] # {}
    /\ \E r \in DOMAIN last.ret : \E c \in DOMAIN last.ret[r] : last.ret[r][c] # 0

\* C6: after any sequence of obj_fcn_wrapper and obj_fcn_jacobian_wrapper calls the
\* caller's observation array holds what the detector put there, sentinels included.
C6_CornersUnchanged == args.precalc.corners = detected

C6_Witness ==
    /\ last.op = "obj_fcn_wrapper"
    /\ \E r \in DOMAIN SentinelRows : SentinelRows[r]
    /\ \E r \in DOMAIN SentinelRows : ~SentinelRows[r]

----------------------------------------------------------------------------
(* Claims about the staged driver (specification SpecDriver) *)

\* the names of the stages executed so far, in the order of their execution
StageNames == [i \in 1..Len(history) |-> history[i].stage]

BoardPosesOff == ~drv.opts.optimize_board_poses

\* every executed stage was called with the calibration the stage before it returned,
\* the first one with the estimate of estimate_cam_poses
SeededByPredecessor ==
    \A i \in 1..Len(history) :
        IF i = 1
        THEN /\ history[i].seed = "estimate_cam_poses"
             /\ history[i].passed = drv.calibs_multi.cams
        ELSE /\ history[i].seed = history[i - 1].stage
             /\ history[i].passed = history[i - 1].returned

\* C8 as stated: a run with opts['optimize_board_poses'] off executes the pose-only
\* stage, the full joint stage and the final joint stage, and skips only stage 3
C8_OnlyStage3Skipped ==
    (stage = "finished" /\ BoardPosesOff) =>
        StageNames = <<"optimize_poses", "optimize_calibration_I", "optimize_calibration_II">>

\* C8 amended: the final joint stage is inside the same conditional as stage 3. A run
\* with opts['optimize_board_poses'] off executes the pose-only stage and the full joint
\* stage only; a run with the option on that finishes executes all four stages
C8_Stage3And4Skipped ==
    stage = "finished" =>
        IF BoardPosesOff
        THEN StageNames = <<"optimize_poses", "optimize_calibration_I">>
        ELSE StageNames = StageOrder

C8_Witness ==
    /\ stage = "finished"
    /\ BoardPosesOff
    /\ Len(history) = 2

\* C9 as stated: every run executes pose-only, full joint, (board-pose refinement),
\* final joint in this order, and each stage is seeded by the stage before it
C9_OrderWithFinalStage ==
    /\ stage = "finished" =>
           StageNames \in {StageOrder, <<"optimize_poses", "optimize_calibration_I",
                                         "optimize_calibration_II">>}
    /\ SeededByPredecessor

\* C9 amended: the stages executed so far are always a beginning of pose-only, full
\* joint, board-pose refinement, final joint (none twice, none out of order), a
\* finished run has executed the first two or all four of them, and each stage is seeded
\* with the calibration the stage before it returned
C9_OrderAndSeeds ==
    /\ \E n_done \in 0..Len(StageOrder) : StageNames = SubSeq(StageOrder, 1, n_done)
    /\ stage = "finished" => Len(history) \in {2, Len(StageOrder)}
    /\ SeededByPredecessor

\* a finished run of all four stages in which the pose-only stage moved the estimate
C9_Witness ==
    /\ stage = "finished"
    /\ Len(history) = Len(StageOrder)
    /\ history[1].returned # drv.calibs_multi.cams
    /\ history[3].returned # history[2].returned

CamParamsOf(calib) ==
    [rvec_cam |-> calib.rvec_cam, tvec_cam |-> calib.tvec_cam, A |-> calib.A, k |-> calib.k]

\* optimize_board_poses has returned, and exactly one frame was above the threshold
OneFrameAbove ==
    /\ drv.board_stage.op = "optimize_board_poses"
    /\ Size(drv.corners[0]) >= 2
    /\ Cardinality(drv.board_stage.good_poses) = Size(drv.corners[0]) - 1

\* C10 as stated: with exactly one frame above opts['max_allowed_res'], the board
\* rotation and translation of every other frame are returned as they were passed in,
\* and so are the rotation, translation, intrinsic matrix and distortion of every camera
C10_OnlyBadFrameChanges ==
    OneFrameAbove =>
        /\ \A q \in drv.board_stage.good_poses :
              /\ drv.board_stage.rvecs_boards[q] = drv.board_stage.passed[0].rvecs[q]
              /\ drv.board_stage.tvecs_boards[q] = drv.board_stage.passed[0].tvecs[q]
        /\ \A cam \in DOMAIN drv.board_stage.passed :
              CamParamsOf(drv.board_stage.calibs_fit_pose[cam]) =
                  CamParamsOf(drv.board_stage.passed[cam])

----------------------------------------------------------------------------
(* Further claims about the parameter vector model (specification Spec) *)

\* C11: in the full vector of make_initialization a free distortion coefficient is
\* stored as the camera's coefficient; one that is not free is stored as 0 when
\* k_to_zero and as the camera's coefficient otherwise
C11_DistortionStored ==
    pc = "ready" =>
        \A cam \in DOMAIN calibs, c \in 0..4 :
            args.vars_full[FlatIndex(NCams, cam, 15 + c)] =
                IF opts.free_vars.k[c] THEN calibs[cam].k[c]
                ELSE IF k_to_zero THEN 0
                ELSE calibs[cam].k[c]

\* two cameras, reduced model, some coefficients free and some not
C11_Witness ==
    /\ pc = "ready"
    /\ NCams = 2
    /\ k_to_zero
    /\ opts.free_vars.k = DefaultK
    /\ args.vars_full[FlatIndex(NCams, 1, 15)] = calibs[1].k[0]
    /\ args.vars_full[FlatIndex(NCams, 1, 19)] = 0

\* C22 as stated: for every camera the mask entry of intrinsic-matrix element e equals
\* free_vars.A[e] and the mask entry of distortion coefficient c equals free_vars.k[c]
C22_IntrinsicToggles ==
    pc = "ready" =>
        \A cam \in DOMAIN calibs :
            /\ \A e \in 0..8 :
                  args.mask_opt[FlatIndex(NCams, cam, 6 + e)] = opts.free_vars.A[e]
            /\ \A c \in 0..4 :
                  args.mask_opt[FlatIndex(NCams, cam, 15 + c)] = opts.free_vars.k[c]

----------------------------------------------------------------------------
(* Further claims about the staged driver (specification SpecDriver) *)

\* the positions of the flat vector that hold an intrinsic-matrix entry or a
\* distortion coefficient of one of n cameras
IntrinsicPositions(n) ==
    {FlatIndex(n, cam, j) : cam \in 0..(n - 1), j \in 6..(NCamParams - 1)}

\* C12 as stated: the mask the pose-only stage hands to the solver is false at every
\* position that holds an intrinsic-matrix entry or a distortion coefficient
C12_PoseOnlyMask ==
    \A i \in 1..Len(history) :
        history[i].stage = "optimize_poses" =>
            \A pos \in IntrinsicPositions(Size(drv.corners)) : ~history[i].mask[pos]

\* C21 as stated: the good set holds the frames in which no camera has a residual above
\* opts['max_allowed_res']; the initial guess of a good frame is its own board pose as
\* passed in, that of any other frame the passed-in board pose of a nearest good frame
C21_GoodSetAndGuess ==
    (stage = "optimize_calibration_II" /\ drv.board_stage.op = "optimize_board_poses") =>
        LET good == drv.board_stage.good_poses
            guesses == drv.board_stage.guesses
            passed == drv.board_stage.passed
        IN  /\ good = {q \in DOMAIN drv.corners[0] :
                          \A i_cam \in DOMAIN drv.corners : ~drv.above[i_cam][q]}
            /\ Len(guesses) = Size(drv.corners[0])
            /\ \A f \in DOMAIN guesses :
                  /\ (f - 1) \in good => guesses[f].nearest = f - 1
                  /\ guesses[f].nearest \in good
                  /\ \A h \in good :
                        Abs(guesses[f].nearest - (f - 1)) <= Abs(h - (f - 1))
                  /\ \A cam \in DOMAIN passed :
                        /\ guesses[f].rvecs[cam] = passed[cam].rvecs[guesses[f].nearest]
                        /\ guesses[f].tvecs[cam] = passed[cam].tvecs[guesses[f].nearest]

\* C20 as stated: the initial board pose handed to the solver for a frame is, for every
\* camera, the pose of the nearest good frame as it was passed into optimize_board_poses
C20_GuessFromPassed ==
    drv.board_stage.op = "optimize_board_poses" =>
        \A f \in DOMAIN drv.board_stage.guesses : \A cam \in DOMAIN drv.board_stage.passed :
            /\ drv.board_stage.guesses[f].rvecs[cam]
                   = drv.board_stage.passed[cam].rvecs[drv.board_stage.guesses[f].nearest]
            /\ drv.board_stage.guesses[f].tvecs[cam]
                   = drv.board_stage.passed[cam].tvecs[drv.board_stage.guesses[f].nearest]

----------------------------------------------------------------------------
(* Further claims about the callbacks (specification SpecEval) *)

\* what make_initialization returned for the inputs of this run
Initial == make_initialization(calibs, frame_masks, opts, k_to_zero)

\* the args as make_optim_input built them, before any callback was called
InitialArgs == [args EXCEPT !.vars_full = Initial.vars_full, !.mask_opt = Initial.mask_free,
                            !.precalc.corners = detected]

\* C13 as stated: a call of obj_fcn_wrapper or obj_fcn_jacobian_wrapper leaves every
\* entry of its args unchanged
C13_ArgsUnchanged == [][pc = "ready" => args' = args]_vars

\* C13 amended: a call writes vars_opt into the free positions of args['vars_full'] and
\* leaves the fixed positions, mask_opt and precalc as they were; what it returns (and
\* the point the derivatives are taken at) is what a call with the same vars_opt on the
\* args of make_initialization returns, whatever calls were made before
C13_SameResult ==
    pc # "input" =>
        /\ args.mask_opt = Initial.mask_free
        /\ args.precalc = InitialArgs.precalc
        /\ \A i \in DOMAIN args.vars_full :
              ~args.mask_opt[i] => args.vars_full[i] = Initial.vars_full[i]
        /\ Evaluated => Select(args.vars_full, args.mask_opt) = last.vars_opt
        /\ last.op = "obj_fcn_wrapper" =>
              last.ret = obj_fcn_wrapper(last.vars_opt, InitialArgs).ret
        /\ last.op = "obj_fcn_jacobian_wrapper" =>
              /\ last.ret = obj_fcn_jacobian_wrapper(last.vars_opt, InitialArgs).ret
              /\ last.point = obj_fcn_jacobian_wrapper(last.vars_opt, InitialArgs).point

\* a callback has returned and has left args['vars_full'] different from the vector of
\* make_initialization
C13_Witness ==
    /\ last.op \in {"obj_fcn_wrapper", "obj_fcn_jacobian_wrapper"}
    /\ Size(last.vars_opt) > 0
    /\ args.vars_full # Initial.vars_full

\* C14 as stated: a not-a-number entry in a derivative block is never surfaced;
\* obj_fcn_jacobian_wrapper still returns a Jacobian and the process is not terminated
C14_NanRecovered ==
    /\ pc # "exited"
    /\ last.op # "exit"

\* the positions at which make_initialization stores the parameters of camera a, and
\* those at which it stores the rotation and translation of board pose q
CameraPositions(n, a) == {FlatIndex(n, a, j) : j \in 0..(NCamParams - 1)}

PosePositions(n, P, q) ==
    {n * NCamParams + (rt * P + q) * 3 + c : rt \in 0..1, c \in 0..2}

\* the Jacobian as the four blocks are concatenated, before rows of sentinels are
\* zeroed and before the columns are selected
AssembledJacobian == JacConcat(CornerShape(args.precalc.corners))

JacobianReturned ==
    /\ last.op = "obj_fcn_jacobian_wrapper"
    /\ CornerShape(args.precalc.corners).K > 0

\* C15 as stated: the columns into which the derivatives of a camera's (a board pose's)
\* parameters are scattered are the positions at which make_initialization stores these
\* parameters, so column i is the derivative with respect to entry i of the vector
C15_ColumnAlignment ==
    JacobianReturned =>
        LET sh == CornerShape(args.precalc.corners)
        IN  \A a \in 0..(sh.C - 1), q \in 0..(sh.P - 1) :
                \A col \in DOMAIN AssembledJacobian[a][q][0][0] :
                    (AssembledJacobian[a][q][0][0][col] # 0) <=>
                        (col \in CameraPositions(sh.C, a) \cup PosePositions(sh.C, sh.P, q))

\* C16 as stated: in both assemblers the concatenated Jacobian has 20 * n + 6 * p
\* columns, the length of the flat vector and of the mask
C16_ColumnCount ==
    LET sh == CornerShape(args.precalc.corners)
        n_columns == NCamParams * sh.C + 6 * sh.P
    IN  /\ JacobianReturned =>
              /\ Size(AssembledJacobian[0][0][0][0]) = n_columns
              /\ Size(args.vars_full) = n_columns
              /\ Size(args.mask_opt) = n_columns
        /\ last.op = "optimization.obj_fcn_jacobian_wrapper" =>
              /\ last.raised = "none"
              /\ last.declared = n_columns

\* the columns of the assembled Jacobian that the loops of calc_cam_jacobian index with
\* camera b: [.., i_param, b, :] of the three camera blocks after the reshape
CamColumnBlock(n, b) ==
    {(i_param * n + b) * 3 + c : i_param \in 0..1, c \in 0..2}
        \cup {6 * n + b * 9 + e : e \in 0..8}
        \cup {15 * n + b * 5 + e : e \in 0..4}

\* the columns that calc_pose_jacobian indexes with pose r: [.., i_param, r, :]
PoseColumnBlock(n, P, r) ==
    {NCamParams * n + (i_param * P + r) * 3 + c : i_param \in 0..1, c \in 0..2}

\* C17: in the assembled Jacobian the row of a residual of camera a and pose q is zero
\* in the column block of every other camera and in the column block of every other pose
C17_BlockSparsity ==
    JacobianReturned =>
        LET sh == CornerShape(args.precalc.corners)
        IN  \A a \in 0..(sh.C - 1), q \in 0..(sh.P - 1), cn \in 0..(sh.K - 1), ax \in 0..1 :
                /\ \A b \in 0..(sh.C - 1) \ {a} : \A col \in CamColumnBlock(sh.C, b) :
                       AssembledJacobian[a][q][cn][ax][col] = 0
                /\ \A r \in 0..(sh.P - 1) \ {q} : \A col \in PoseColumnBlock(sh.C, sh.P, r) :
                       AssembledJacobian[a][q][cn][ax][col] = 0

\* two cameras and two poses, the row of the last camera and pose holds derivatives in
\* its own blocks
C17_Witness ==
    /\ JacobianReturned
    /\ CornerShape(args.precalc.corners).C = 2
    /\ CornerShape(args.precalc.corners).P = 2
    /\ \A col \in CamColumnBlock(2, 1) \cup PoseColumnBlock(2, 2, 1) :
           AssembledJacobian[1][1][0][0][col] # 0

\* C19: obj_fcn_jacobian_wrapper evaluates the derivatives at rotations in which every
\* all-zero camera rotation is replaced by a nonzero epsilon and every other rotation is
\* as unravelled, and args['vars_full'] is left as make_vars_full produced it
C19_NudgeOnCopy ==
    [][(pc = "ready" /\ last'.op = "obj_fcn_jacobian_wrapper") =>
          \A full \in {Stored(make_vars_full(last'.vars_opt, args))} :
          \A rvecs \in {Stored(unravel_vars_full(full, Size(args.precalc.boards_coords_3d_0)).rvecs_cams)} :
              /\ args'.vars_full = full
              /\ last'.point.rvecs_cams = last'.rvecs_cams
              /\ \A i_cam \in DOMAIN rvecs :
                     IF AllZero(rvecs[i_cam])
                     THEN /\ \A c \in 0..2 : last'.rvecs_cams[i_cam][c] = Eps
                          /\ Eps # 0
                          /\ \A c \in 0..2 : full[FlatIndex(Size(rvecs), i_cam, c)] = 0
                     ELSE last'.rvecs_cams[i_cam] = rvecs[i_cam]]_vars

\* a call with two cameras: one rotation is all zero in vars_full and was nudged, the
\* other is not zero and was handed on unchanged
C19_Witness ==
    /\ last.op = "obj_fcn_jacobian_wrapper"
    /\ Size(last.rvecs_cams) = 2
    /\ \E i_cam \in 0..1 :
           /\ \A c \in 0..2 : /\ args.vars_full[FlatIndex(2, i_cam, c)] = 0
                               /\ last.rvecs_cams[i_cam][c] = Eps
           /\ \A c \in 0..2 : /\ args.vars_full[FlatIndex(2, 1 - i_cam, c)] # 0
                               /\ last.rvecs_cams[1 - i_cam][c]
                                      = args.vars_full[FlatIndex(2, 1 - i_cam, c)]

----------------------------------------------------------------------------
(* Claims about the callbacks on long recordings (SpecLong) *)

\* C18 as stated: for every pose count, every frame 0..p-1 of every camera has a
\* derivative block written in that camera's column block
C18_EveryFrameWritten ==
    JacobianReturned =>
        LET sh == CornerShape(args.precalc.corners)
        IN  \A a \in 0..(sh.C - 1), q \in 0..(sh.P - 1) :
                \A col \in CamColumnBlock(sh.C, a) :
                    AssembledJacobian[a][q][0][0][col] # 0

====
